---- MODULE Spec2Model ----
(***************************************************************************)
(* Model of torch/_inductor/kernel/mm_common.py: the helpers shared by the *)
(* matmul lowerings (fallback policy, launch grids, template options,      *)
(* argument normalisation, static-shape classification).                   *)
(*                                                                         *)
(* A behaviour is one caller: it holds the arguments of one call (drawn in *)
(* Init), performs the call, and, for the option builders, performs the    *)
(* same call a second time.  The process-wide settings the module reads    *)
(* are state of their own and may be written between the two calls.        *)
(***************************************************************************)
EXTENDS Integers, Sequences, FiniteSets, TLC

VARIABLES
    allow_tf32,                 \* torch.backends.cuda.matmul.allow_tf32
    force_same_precision,       \* inductor_config.force_same_precision
    autotune_fallback_to_aten,  \* inductor_config.autotune_fallback_to_aten
    max_autotune_gemm_backends, \* inductor_config.max_autotune_gemm_backends
    num_sms,                    \* compute units of the current device
    op,                         \* the function the caller invokes
    args,                       \* its arguments
    pc,                         \* "ready" -> "called" -> "recalled"
    ret,                        \* result of the first call
    ret2,                       \* result of the second, identical call
    written,                    \* a setting was written since the first call
    warnings                    \* messages passed to log.warning

vars == <<allow_tf32, force_same_precision, autotune_fallback_to_aten,
          max_autotune_gemm_backends, num_sms, op, args, pc, ret, ret2,
          written, warnings>>

settings == <<allow_tf32, force_same_precision, autotune_fallback_to_aten,
              max_autotune_gemm_backends, num_sms>>

(***************************************************************************)
(* Bounds of the model.                                                    *)
(***************************************************************************)
MaxChoices == 2     \* longest candidate list
MaxMN      == 4     \* largest m, n handed to the grid functions
MaxBlock   == 2     \* largest BLOCK_M, BLOCK_N handed to the grid functions
MaxSms     == 3     \* largest compute-unit count
MaxK       == 8     \* largest static contraction size handed to mm_options
MaxBlockK  == 3     \* largest BLOCK_K
MaxRank    == 3     \* longest layout.size handed to _is_static_problem
MaxDim     == 2     \* largest static dimension of a shape
MaxBatch   == 1     \* longest batch prefix handed to mm_args

(***************************************************************************)
(* Values.                                                                 *)
(***************************************************************************)
None == [tag |-> "None"]

\* A size is a concrete integer or a symbolic expression without a known value.
Static(n) == [tag |-> "Static", n |-> n]
Dynamic   == [tag |-> "Dynamic"]

IsStatic(d) == d.tag = "Static"

Dtype(name) == [module |-> "torch", name |-> name]

float16  == Dtype("float16")
bfloat16 == Dtype("bfloat16")
float32  == Dtype("float32")
int8     == Dtype("int8")

RECURSIVE SeqsUpTo(_, _)
\* all sequences over S of length at most n
SeqsUpTo(S, n) ==
    IF n = 0 THEN {<<>>}
    ELSE LET shorter == SeqsUpTo(S, n - 1)
         IN  shorter \cup {Append(s, x) : s \in shorter, x \in S}

Dims == {Static(n) : n \in 0 .. MaxDim} \cup {Dynamic}

(***************************************************************************)
(* Collaborators defined outside mm_common.py.                             *)
(***************************************************************************)
\* utils.use_aten_gemm_kernels: the ATen backend is among the enabled ones
use_aten_gemm_kernels == "ATEN" \in max_autotune_gemm_backends

\* utils.get_num_sms: compute-unit count of the current device
get_num_sms == num_sms

TMA_DESCRIPTOR_SIZE == 128

\* ceiling division handed to a grid function: -(numer // -denom)
cdiv(numer, denom) == -((-numer) \div denom)

min(a, b) == IF a <= b THEN a ELSE b

RECURSIVE Gcd(_, _)
\* Euclid's algorithm on non-negative integers
Gcd(a, b) == IF b = 0 THEN a ELSE Gcd(b, a % b)

\* sympy.gcd of a size and an integer: a symbol shares no factor with it
sympy_gcd(d, b) == IF IsStatic(d) THEN Gcd(d.n, b) ELSE 1

\* (d % q) == 0: decided for an integer, left unevaluated (false) for a symbol
mod_is_zero(d, q) == IsStatic(d) /\ d.n % q = 0

\* sizevars.guard_equals(left, right): fails only when both are known and
\* differ; otherwise records the equality and hands back left
guard_equals(left, right) ==
    [ok    |-> ~(IsStatic(left) /\ IsStatic(right) /\ left.n # right.n),
     value |-> left]

\* PythonWrapperCodegen.statically_known_int_or_none
Known(n) == [tag |-> "int", n |-> n]

statically_known_int_or_none(x) == IF IsStatic(x) THEN Known(x.n) ELSE None

\* PythonWrapperCodegen.statically_known_list_of_ints_or_none
statically_known_list_of_ints_or_none(lst) ==
    IF \E i \in 1 .. Len(lst) : statically_known_int_or_none(lst[i]) = None
    THEN None
    ELSE [tag   |-> "list",
          items |-> [i \in 1 .. Len(lst) |->
                         statically_known_int_or_none(lst[i]).n]]

\* ir.FixedLayout(device, dtype, size)
FixedLayout(device, dtype, size) ==
    [device |-> device, dtype |-> dtype, size |-> size]

(***************************************************************************)
(* mm_common.py                                                            *)
(***************************************************************************)
WarnFallback   == "No choices for GEMM, using ATen backend as fallback."
WarnNoFallback == "No choices for GEMM, chose not to fallback to ATen backend."

\* variant: the enabled backends are not consulted
should_fallback_to_aten_unless_empty(choices) ==
    IF Len(choices) = 0
    THEN IF autotune_fallback_to_aten
         THEN [value |-> TRUE,  log |-> <<WarnFallback>>]
         ELSE [value |-> FALSE, log |-> <<WarnNoFallback>>]
    ELSE [value |-> FALSE, log |-> <<>>]

should_fallback_to_aten(choices) ==
    IF Len(choices) = 0 /\ ~use_aten_gemm_kernels
    THEN IF autotune_fallback_to_aten
         THEN [value |-> TRUE,  log |-> <<WarnFallback>>]
         ELSE [value |-> FALSE, log |-> <<WarnNoFallback>>]
    ELSE [value |-> FALSE, log |-> <<>>]

mm_grid(m, n, meta) ==
    <<cdiv(m, meta.BLOCK_M) * cdiv(n, meta.BLOCK_N), 1, 1>>

\* variant: one program per compute unit, however few the tiles
persistent_mm_grid_one_per_unit(M, N, meta) ==
    <<meta.NUM_SMS, 1, 1>>

persistent_mm_grid(M, N, meta) ==
    <<min(meta.NUM_SMS, cdiv(M, meta.BLOCK_M) * cdiv(N, meta.BLOCK_N)), 1, 1>>

\* f"tl.{dtype}".replace("torch.", ""), the text kept as its dotted parts
acc_type(dtype) ==
    IF dtype \in {float16, bfloat16}
    THEN <<"tl", "float32">>
    ELSE SelectSeq(<<"tl", dtype.module, dtype.name>>,
                   LAMBDA part : part # "torch")

\* variant: any common factor of sym_k and BLOCK_K counts as even
even_k_symbolic_common_factor(sym_k, config) ==
    sympy_gcd(sym_k, config.kwargs.BLOCK_K) # 1

\* sympy.gcd(sym_k, BLOCK_K) == BLOCK_K
even_k_symbolic(sym_k, config) ==
    sympy_gcd(sym_k, config.kwargs.BLOCK_K) = config.kwargs.BLOCK_K

mm_options(config, sym_m, sym_n, sym_k, layout) ==
    LET tf32 ==
            allow_tf32 /\
            (~force_same_precision \/
             (mod_is_zero(sym_m, 16) /\ mod_is_zero(sym_n, 16) /\
              mod_is_zero(sym_k, 8)))
    IN  [GROUP_M    |-> 8,
         EVEN_K     |-> even_k_symbolic(sym_k, config),
         ALLOW_TF32 |-> tf32,
         ACC_TYPE   |-> acc_type(layout.dtype),
         num_stages |-> config.num_stages,
         num_warps  |-> config.num_warps] @@ config.kwargs

\* variant: the builder numbers its calls, so its result depends on hidden
\* state
persistent_mm_options_counting_calls(mat1, mat2) ==
    [A_ROW_MAJOR |-> ~mat1.layout.is_transposed,
     B_ROW_MAJOR |-> ~mat2.layout.is_transposed,
     NUM_SMS     |-> get_num_sms + (IF pc = "ready" THEN 0 ELSE 1),
     TMA_SIZE    |-> TMA_DESCRIPTOR_SIZE]

persistent_mm_options(mat1, mat2) ==
    [A_ROW_MAJOR |-> ~mat1.layout.is_transposed,
     B_ROW_MAJOR |-> ~mat2.layout.is_transposed,
     NUM_SMS     |-> get_num_sms,
     TMA_SIZE    |-> TMA_DESCRIPTOR_SIZE]

\* variant: the scan ends at the first size that does not resolve
RECURSIVE scan_nonzero_until_unknown(_, _)
scan_nonzero_until_unknown(size, i) ==
    IF i > Len(size) THEN TRUE
    ELSE LET sz == statically_known_int_or_none(size[i])
         IN  IF sz = None THEN TRUE
             ELSE IF sz.n = 0 THEN FALSE
             ELSE scan_nonzero_until_unknown(size, i + 1)

RECURSIVE scan_nonzero(_, _)
\* the loop of lines 175-179 from position i on: false at the first size
\* known to be 0, true when the sizes run out
scan_nonzero(size, i) ==
    IF i > Len(size) THEN TRUE
    ELSE LET sz == statically_known_int_or_none(size[i])
         IN  IF sz # None /\ sz.n = 0 THEN FALSE
             ELSE scan_nonzero(size, i + 1)

\* variant: the sizes are added up instead of multiplied
RECURSIVE numel_from_summing(_, _, _)
numel_from_summing(static_size, i, numel) ==
    IF i > Len(static_size) THEN numel
    ELSE numel_from_summing(static_size, i + 1, numel + static_size[i])

RECURSIVE numel_from(_, _, _)
\* the loop of lines 182-183: numel *= dim for every dim from position i on
numel_from(static_size, i, numel) ==
    IF i > Len(static_size) THEN numel
    ELSE numel_from(static_size, i + 1, numel * static_size[i])

_is_static_problem(layout) ==
    LET static_shape == TRUE
        static_size  == statically_known_list_of_ints_or_none(layout.size)
    IN  IF static_size = None
        THEN <<FALSE, scan_nonzero(layout.size, 1)>>
        ELSE LET numel == numel_from(static_size.items, 1, 1)
             IN  <<static_shape, numel > 0>>

\* size * 2: an integer doubles, a symbolic expression stays symbolic
times2(d) == IF IsStatic(d) THEN Static(d.n * 2) ELSE Dynamic

Raise(error) == [status |-> error]

\* *b1, m, k1 = mat1.get_size()
unpack_mat1(size) ==
    [b |-> SubSeq(size, 1, Len(size) - 2),
     m |-> size[Len(size) - 1],
     k |-> size[Len(size)]]

\* variant: mat2_transposed is not consulted
unpack_mat2_as_given(size, mat2_transposed) ==
    [b |-> SubSeq(size, 1, Len(size) - 2),
     k |-> size[Len(size) - 1],
     n |-> size[Len(size)]]

\* *b2, n, k2 = mat2.get_size() when transposed, else *b2, k2, n = ...
unpack_mat2(size, mat2_transposed) ==
    IF mat2_transposed
    THEN [b |-> SubSeq(size, 1, Len(size) - 2),
          n |-> size[Len(size) - 1],
          k |-> size[Len(size)]]
    ELSE [b |-> SubSeq(size, 1, Len(size) - 2),
          k |-> size[Len(size) - 1],
          n |-> size[Len(size)]]

\* the guards over zip(b1, b2); zip stops at the shorter of the two
guard_batch(b1, b2) ==
    [i \in 1 .. min(Len(b1), Len(b2)) |-> guard_equals(b1[i], b2[i])]

\* variant: the doubling is applied to k1
guard_contraction_doubling_k1(k1, k2, use_4x2_dim) ==
    guard_equals(IF use_4x2_dim THEN times2(k1) ELSE k1, k2)

\* if use_4x2_dim: k2 = k2 * 2; then guard_equals(k1, k2)
guard_contraction(k1, k2, use_4x2_dim) ==
    guard_equals(k1, IF use_4x2_dim THEN times2(k2) ELSE k2)

\* variant: out_dtype is not consulted when the layout is built
output_layout_dropping_out_dtype(mat1, layout, out_dtype, size) ==
    IF layout = None
    THEN [status |-> "ok",
          layout |-> FixedLayout(mat1.device, mat1.dtype, size)]
    ELSE IF out_dtype # None
    THEN Raise("ConflictingSpecification")
    ELSE [status |-> "ok", layout |-> layout]

\* lines 117-129: the layout to return, or the failed assertion
output_layout(mat1, layout, out_dtype, size) ==
    IF layout = None
    THEN [status |-> "ok",
          layout |-> FixedLayout(
              mat1.device,
              IF out_dtype = None THEN mat1.dtype ELSE out_dtype,
              size)]
    ELSE IF out_dtype # None
    THEN Raise("ConflictingSpecification")
    ELSE [status |-> "ok", layout |-> layout]

\* mm_args called without further operands (others is empty)
mm_args(mat1, mat2, layout, out_dtype, use_4x2_dim, mat2_transposed) ==
    LET left    == unpack_mat1(mat1.size)
        right   == unpack_mat2(mat2.size, mat2_transposed)
        guarded == guard_batch(left.b, right.b)
        b       == [i \in 1 .. Len(guarded) |-> guarded[i].value]
        k       == guard_contraction(left.k, right.k, use_4x2_dim)
        out     == output_layout(mat1, layout, out_dtype,
                                 b \o <<left.m, right.n>>)
    IN  IF \E i \in 1 .. Len(guarded) : ~guarded[i].ok
        THEN Raise("ShapeMismatch")
        ELSE IF ~k.ok
        THEN Raise("ShapeMismatch")
        ELSE IF out.status # "ok"
        THEN out
        ELSE [status |-> "ok", m |-> left.m, n |-> right.n, k |-> k.value,
              layout |-> out.layout, mat1 |-> mat1, mat2 |-> mat2]

(***************************************************************************)
(* Arguments the caller may hold.                                          *)
(***************************************************************************)
Choices == {[i \in 1 .. len |-> "choice"] : len \in 0 .. MaxChoices}

FallbackArgs == {[choices |-> c] : c \in Choices}

GridArgs ==
    {[m |-> m, n |-> n, meta |-> [BLOCK_M |-> bm, BLOCK_N |-> bn]] :
        m \in 0 .. MaxMN, n \in 0 .. MaxMN,
        bm \in 1 .. MaxBlock, bn \in 1 .. MaxBlock}

PersistentGridArgs ==
    {[M |-> a.m, N |-> a.n, meta |-> a.meta @@ [NUM_SMS |-> c]] :
        a \in GridArgs, c \in 1 .. MaxSms}

TritonConfigs ==
    {[kwargs |-> [BLOCK_M |-> 32, BLOCK_N |-> 32, BLOCK_K |-> bk],
      num_stages |-> 2, num_warps |-> 4] : bk \in 1 .. MaxBlockK}

AlignDims == {Static(8), Static(16), Dynamic}

KDims == {Static(k) : k \in 0 .. MaxK} \cup {Dynamic}

OptionsArgs ==
    {[config |-> c, sym_m |-> m, sym_n |-> n, sym_k |-> k,
      layout |-> [dtype |-> d]] :
        c \in TritonConfigs, m \in AlignDims, n \in AlignDims, k \in KDims,
        d \in {float16, float32}}

PersistentOptionsArgs ==
    {[mat1 |-> [layout |-> [is_transposed |-> t1]],
      mat2 |-> [layout |-> [is_transposed |-> t2]]] :
        t1 \in BOOLEAN, t2 \in BOOLEAN}

StaticProblemArgs ==
    {[layout |-> [size |-> size]] : size \in SeqsUpTo(Dims, MaxRank)}

BatchDims == {Static(2), Dynamic}

\* mat1 is batch ++ [m, k1], mat2 is batch ++ [k2, n] or batch ++ [n, k2]
Shapes ==
    {batch \o <<rows, cols>> :
        batch \in SeqsUpTo(BatchDims, MaxBatch), rows \in Dims, cols \in Dims}

\* a layout the caller built beforehand
GivenLayout == FixedLayout("cuda", bfloat16, <<Static(1), Static(1)>>)

MmArgsCall(s1, s2, l, d, u, t) ==
    [mat1 |-> [size |-> s1, dtype |-> float16, device |-> "cuda"],
     mat2 |-> [size |-> s2, dtype |-> int8, device |-> "cuda"],
     layout |-> l, out_dtype |-> d, use_4x2_dim |-> u, mat2_transposed |-> t]

Backends == {{"TRITON"}, {"ATEN", "TRITON"}}

(***************************************************************************)
(* The caller of the fallback policy, the grids, the option builders and   *)
(* the static-shape classifier.                                            *)
(***************************************************************************)
ArgsOf(f) ==
    CASE f = "should_fallback_to_aten" -> FallbackArgs
      [] f = "mm_grid"                 -> GridArgs
      [] f = "persistent_mm_grid"      -> PersistentGridArgs
      [] f = "mm_options"              -> OptionsArgs
      [] f = "persistent_mm_options"   -> PersistentOptionsArgs
      [] f = "_is_static_problem"      -> StaticProblemArgs

Functions ==
    {"should_fallback_to_aten", "mm_grid", "persistent_mm_grid", "mm_options",
     "persistent_mm_options", "_is_static_problem"}

Idle ==
    /\ pc = "ready"
    /\ ret = None
    /\ ret2 = None
    /\ written = FALSE
    /\ warnings = <<>>

Init ==
    /\ allow_tf32 \in BOOLEAN
    /\ force_same_precision \in BOOLEAN
    /\ autotune_fallback_to_aten \in BOOLEAN
    /\ max_autotune_gemm_backends \in Backends
    /\ num_sms \in 1 .. MaxSms
    /\ op \in Functions
    /\ args \in ArgsOf(op)
    /\ Idle

\* the first call: the caller keeps what the function returned
Returned(value) ==
    /\ pc = "ready"
    /\ pc' = "called"
    /\ ret' = value
    /\ UNCHANGED <<settings, op, args, ret2, written>>

\* the second call, with the arguments of the first
ReturnedAgain(value) ==
    /\ pc = "called"
    /\ pc' = "recalled"
    /\ ret2' = value
    /\ UNCHANGED <<settings, op, args, ret, written, warnings>>

CallShouldFallbackToAten ==
    /\ op = "should_fallback_to_aten"
    /\ LET r == should_fallback_to_aten(args.choices)
       IN  /\ Returned(r.value)
           /\ warnings' = warnings \o r.log

CallMmGrid ==
    /\ op = "mm_grid"
    /\ Returned(mm_grid(args.m, args.n, args.meta))
    /\ UNCHANGED warnings

CallPersistentMmGrid ==
    /\ op = "persistent_mm_grid"
    /\ Returned(persistent_mm_grid(args.M, args.N, args.meta))
    /\ UNCHANGED warnings

CallMmOptions ==
    /\ op = "mm_options"
    /\ Returned(mm_options(args.config, args.sym_m, args.sym_n, args.sym_k,
                           args.layout))
    /\ UNCHANGED warnings

RecallMmOptions ==
    /\ op = "mm_options"
    /\ ReturnedAgain(mm_options(args.config, args.sym_m, args.sym_n,
                                args.sym_k, args.layout))

CallPersistentMmOptions ==
    /\ op = "persistent_mm_options"
    /\ Returned(persistent_mm_options(args.mat1, args.mat2))
    /\ UNCHANGED warnings

RecallPersistentMmOptions ==
    /\ op = "persistent_mm_options"
    /\ ReturnedAgain(persistent_mm_options(args.mat1, args.mat2))

CallIsStaticProblem ==
    /\ op = "_is_static_problem"
    /\ Returned(_is_static_problem(args.layout))
    /\ UNCHANGED warnings

\* Writes to the process-wide settings, by whoever shares the process.  Init
\* covers every setting a write before the first call can leave behind, so
\* the writes modelled are those after it.
Wrote ==
    /\ pc = "called"
    /\ written' = TRUE
    /\ UNCHANGED <<op, args, pc, ret, ret2, warnings>>

SetAllowTf32 ==
    /\ Wrote
    /\ allow_tf32' = ~allow_tf32
    /\ UNCHANGED <<force_same_precision, autotune_fallback_to_aten,
                   max_autotune_gemm_backends, num_sms>>

SetForceSamePrecision ==
    /\ Wrote
    /\ force_same_precision' = ~force_same_precision
    /\ UNCHANGED <<allow_tf32, autotune_fallback_to_aten,
                   max_autotune_gemm_backends, num_sms>>

SetAutotuneFallbackToAten ==
    /\ Wrote
    /\ autotune_fallback_to_aten' = ~autotune_fallback_to_aten
    /\ UNCHANGED <<allow_tf32, force_same_precision,
                   max_autotune_gemm_backends, num_sms>>

SetMaxAutotuneGemmBackends ==
    /\ Wrote
    /\ max_autotune_gemm_backends' \in Backends \ {max_autotune_gemm_backends}
    /\ UNCHANGED <<allow_tf32, force_same_precision,
                   autotune_fallback_to_aten, num_sms>>

\* torch.cuda.set_device: the current device, and with it the unit count
SetDevice ==
    /\ Wrote
    /\ num_sms' \in (1 .. MaxSms) \ {num_sms}
    /\ UNCHANGED <<allow_tf32, force_same_precision,
                   autotune_fallback_to_aten, max_autotune_gemm_backends>>

Next ==
    \/ CallShouldFallbackToAten
    \/ CallMmGrid
    \/ CallPersistentMmGrid
    \/ CallMmOptions
    \/ RecallMmOptions
    \/ CallPersistentMmOptions
    \/ RecallPersistentMmOptions
    \/ CallIsStaticProblem
    \/ SetAllowTf32
    \/ SetForceSamePrecision
    \/ SetAutotuneFallbackToAten
    \/ SetMaxAutotuneGemmBackends
    \/ SetDevice

Spec == Init /\ [][Next]_vars

(***************************************************************************)
(* The caller of mm_args.  mm_args reads no setting, so none is written.   *)
(***************************************************************************)
InitArgs ==
    /\ allow_tf32 = FALSE
    /\ force_same_precision = TRUE
    /\ autotune_fallback_to_aten = FALSE
    /\ max_autotune_gemm_backends = {"ATEN", "TRITON"}
    /\ num_sms = 1
    /\ op = "mm_args"
    /\ \E s1 \in Shapes, s2 \in Shapes, l \in {None, GivenLayout},
          d \in {None, float32}, u \in BOOLEAN, t \in BOOLEAN :
           args = MmArgsCall(s1, s2, l, d, u, t)
    /\ Idle

CallMmArgs ==
    /\ op = "mm_args"
    /\ Returned(mm_args(args.mat1, args.mat2, args.layout, args.out_dtype,
                        args.use_4x2_dim, args.mat2_transposed))
    /\ UNCHANGED warnings

NextArgs == CallMmArgs

SpecArgs == InitArgs /\ [][NextArgs]_vars

(***************************************************************************)
(* Properties.                                                             *)
(***************************************************************************)
\* the first call of f has returned
Called(f) == op = f /\ pc # "ready"

\* the first call of f has returned and no setting was written since
JustCalled(f) == op = f /\ pc = "called" /\ ~written

\* the least q with q * b >= a
Ceil(a, b) == CHOOSE q \in 0 .. a : q * b >= a /\ \A r \in 0 .. a : r * b >= a => q <= r

\* C1: should_fallback_to_aten returns true exactly when the candidate list
\* is empty, the ATen backend is not enabled and autotune_fallback_to_aten is
\* set; a non-empty list yields false whatever the two settings are.
C1_FallbackPolicy ==
    JustCalled("should_fallback_to_aten") =>
        /\ ret = (/\ Len(args.choices) = 0
                  /\ "ATEN" \notin max_autotune_gemm_backends
                  /\ autotune_fallback_to_aten)
        /\ (Len(args.choices) > 0 => ret = FALSE)

C1_Witness ==
    /\ JustCalled("should_fallback_to_aten")
    /\ ret = TRUE

\* C2: for a shape whose dimensions are all static, _is_static_problem
\* returns (true, nonzero) with nonzero false exactly when some dimension is
\* 0; the empty shape is nonzero.
C2_StaticVerdict ==
    (/\ Called("_is_static_problem")
     /\ \A i \in 1 .. Len(args.layout.size) : IsStatic(args.layout.size[i]))
    => ret = <<TRUE, ~\E i \in 1 .. Len(args.layout.size) :
                          args.layout.size[i].n = 0>>

C2_Witness ==
    /\ Called("_is_static_problem")
    /\ Len(args.layout.size) >= 2
    /\ \A i \in 1 .. Len(args.layout.size) : IsStatic(args.layout.size[i])
    /\ args.layout.size[1].n > 1
    /\ args.layout.size[Len(args.layout.size)].n = 0
    /\ ret = <<TRUE, FALSE>>

\* C3: for a shape with at least one dynamic dimension, _is_static_problem
\* returns (false, nonzero) with nonzero false exactly when some dimension
\* that resolves statically is 0, wherever it sits in the shape.
C3_DynamicVerdict ==
    (/\ Called("_is_static_problem")
     /\ \E i \in 1 .. Len(args.layout.size) : ~IsStatic(args.layout.size[i]))
    => ret = <<FALSE, ~\E i \in 1 .. Len(args.layout.size) :
                           /\ IsStatic(args.layout.size[i])
                           /\ args.layout.size[i].n = 0>>

\* a zero that sits after the dynamic dimension is still found
C3_Witness ==
    /\ Called("_is_static_problem")
    /\ Len(args.layout.size) >= 2
    /\ args.layout.size[1] = Dynamic
    /\ args.layout.size[Len(args.layout.size)] = Static(0)
    /\ ret = <<FALSE, FALSE>>

\* C7: persistent_mm_grid returns (min(C, ceil(m/bm) * ceil(n/bn)), 1, 1), so
\* its x exceeds neither C nor the x = ceil(m/bm) * ceil(n/bn) that mm_grid
\* returns for the same m, n, bm, bn.
C7_PersistentGrid ==
    /\ Called("mm_grid") =>
           ret = <<Ceil(args.m, args.meta.BLOCK_M)
                       * Ceil(args.n, args.meta.BLOCK_N), 1, 1>>
    /\ Called("persistent_mm_grid") =>
           LET tiles == Ceil(args.M, args.meta.BLOCK_M)
                            * Ceil(args.N, args.meta.BLOCK_N)
               C == args.meta.NUM_SMS
           IN  /\ ret = <<IF C <= tiles THEN C ELSE tiles, 1, 1>>
               /\ ret[1] <= C
               /\ ret[1] <= mm_grid(args.M, args.N, args.meta)[1]

\* more tiles than units: the unit count bounds the grid
C7_Witness ==
    /\ Called("persistent_mm_grid")
    /\ args.M % args.meta.BLOCK_M # 0
    /\ args.meta.NUM_SMS < mm_grid(args.M, args.N, args.meta)[1]
    /\ ret[1] = args.meta.NUM_SMS

\* C8: for a static contraction size k >= 0 and a positive BLOCK_K, EVEN_K is
\* true exactly when BLOCK_K divides k.
C8_EvenK ==
    (Called("mm_options") /\ IsStatic(args.sym_k)) =>
        ret.EVEN_K = (args.sym_k.n % args.config.kwargs.BLOCK_K = 0)

C8_Witness ==
    /\ Called("mm_options")
    /\ args.sym_k = Static(0)
    /\ args.config.kwargs.BLOCK_K > 1
    /\ ret.EVEN_K = TRUE

\* The operands of a finished mm_args call, read off its arguments.
LeftSize  == args.mat1.size
RightSize == args.mat2.size

BatchOf(size) == SubSeq(size, 1, Len(size) - 2)

LeftRows == LeftSize[Len(LeftSize) - 1]
LeftContraction == LeftSize[Len(LeftSize)]

RightContraction ==
    IF args.mat2_transposed THEN RightSize[Len(RightSize)]
                            ELSE RightSize[Len(RightSize) - 1]

RightOther ==
    IF args.mat2_transposed THEN RightSize[Len(RightSize) - 1]
                            ELSE RightSize[Len(RightSize)]

KnownUnequal(a, b) == IsStatic(a) /\ IsStatic(b) /\ a.n # b.n

AllStatic(size) == \A i \in 1 .. Len(size) : IsStatic(size[i])

\* both an explicit layout and an explicit out_dtype were passed
BothGiven == args.layout # None /\ args.out_dtype # None

\* some pair of batch dimensions at the same position is known to differ
BatchKnownUnequal ==
    \E i \in 1 .. Len(BatchOf(LeftSize)) :
        /\ i <= Len(BatchOf(RightSize))
        /\ KnownUnequal(BatchOf(LeftSize)[i], BatchOf(RightSize)[i])

\* the result carries m, n, k of the operands
ReturnsMNK ==
    /\ ret.status = "ok"
    /\ ret.m = LeftRows
    /\ ret.n = RightOther
    /\ ret.k \in {LeftContraction, RightContraction}

\* C4 as stated: with use_4x2_dim off and equal batch prefixes, mm_args fails
\* with ShapeMismatch iff the two contraction dimensions are both static and
\* unequal; in every other case it succeeds and returns m, n, k and an output
\* shape equal to batch dims ++ [m, n].  (The output shape is read where
\* mm_args builds it, that is when no layout is passed.)
C4_AsStated ==
    (/\ Called("mm_args")
     /\ ~args.use_4x2_dim
     /\ BatchOf(LeftSize) = BatchOf(RightSize))
    => IF KnownUnequal(LeftContraction, RightContraction)
       THEN ret.status = "ShapeMismatch"
       ELSE /\ ReturnsMNK
            /\ args.layout = None =>
                   ret.layout.size =
                       BatchOf(LeftSize) \o <<LeftRows, RightOther>>

\* C4, amended: with use_4x2_dim off and equal batch prefixes, mm_args fails
\* with ShapeMismatch iff the two contraction dimensions are both static and
\* unequal; otherwise it fails with ConflictingSpecification when both layout
\* and out_dtype are passed, and else succeeds and returns m, n, k and, when
\* no layout is passed, an output shape equal to batch dims ++ [m, n] (a
\* layout that is passed is returned as it is).
C4_Contraction ==
    (/\ Called("mm_args")
     /\ ~args.use_4x2_dim
     /\ BatchOf(LeftSize) = BatchOf(RightSize))
    => IF KnownUnequal(LeftContraction, RightContraction)
       THEN ret.status = "ShapeMismatch"
       ELSE IF BothGiven
       THEN ret.status = "ConflictingSpecification"
       ELSE /\ ReturnsMNK
            /\ IF args.layout = None
               THEN ret.layout.size =
                        BatchOf(LeftSize) \o <<LeftRows, RightOther>>
               ELSE ret.layout = args.layout

\* a transposed right operand whose contraction size is known while the left
\* one is dynamic, under a batch dimension
C4_Witness ==
    /\ Called("mm_args")
    /\ ~args.use_4x2_dim
    /\ args.mat2_transposed
    /\ args.layout = None
    /\ Len(BatchOf(LeftSize)) = 1
    /\ BatchOf(LeftSize) = BatchOf(RightSize)
    /\ LeftContraction = Dynamic
    /\ RightContraction = Static(2)
    /\ RightOther = Static(1)
    /\ ret.status = "ok"
    /\ ret.layout.size = BatchOf(LeftSize) \o <<LeftRows, Static(1)>>

\* C5 as stated: with use_4x2_dim set, the left contraction dimension is the
\* one doubled: for static dimensions mm_args succeeds iff
\* 2 * left.contraction = right.contraction and fails with ShapeMismatch
\* otherwise.  (Stated for calls that pass the batch guards and do not pass
\* both layout and out_dtype, which fail for reasons of their own.)
C5_AsStated ==
    (/\ Called("mm_args")
     /\ args.use_4x2_dim
     /\ IsStatic(LeftContraction) /\ IsStatic(RightContraction)
     /\ ~BatchKnownUnequal
     /\ ~BothGiven)
    => IF 2 * LeftContraction.n = RightContraction.n
       THEN ret.status = "ok"
       ELSE ret.status = "ShapeMismatch"

\* C5, amended: with use_4x2_dim set, the right contraction dimension is the
\* one doubled: for static dimensions mm_args fails with ShapeMismatch
\* whenever left.contraction # 2 * right.contraction, and, the batch guards
\* passing and layout and out_dtype not both passed, succeeds iff
\* left.contraction = 2 * right.contraction, returning k = left.contraction.
C5_DoubledRight ==
    (/\ Called("mm_args")
     /\ args.use_4x2_dim
     /\ IsStatic(LeftContraction) /\ IsStatic(RightContraction))
    => /\ LeftContraction.n # 2 * RightContraction.n
              => ret.status = "ShapeMismatch"
       /\ (~BatchKnownUnequal /\ ~BothGiven)
              => IF LeftContraction.n = 2 * RightContraction.n
                 THEN ret.status = "ok" /\ ret.k = LeftContraction
                 ELSE ret.status = "ShapeMismatch"

C5_Witness ==
    /\ Called("mm_args")
    /\ args.use_4x2_dim
    /\ LeftContraction = Static(2)
    /\ RightContraction = Static(1)
    /\ ret.status = "ok"
    /\ ret.k = Static(2)

\* C6: for operands with fully static shapes of any batch rank, mm_args
\* succeeds only if the batch prefixes of left and right are equal in every
\* position, and on success the batch prefix of the output shape is the batch
\* prefix of left and of right.  (The output shape is read where mm_args
\* builds it, that is when no layout is passed.)
C6_BatchPrefixes ==
    (/\ Called("mm_args")
     /\ AllStatic(LeftSize) /\ AllStatic(RightSize)
     /\ ret.status = "ok")
    => /\ BatchOf(LeftSize) = BatchOf(RightSize)
       /\ args.layout = None =>
              /\ BatchOf(ret.layout.size) = BatchOf(LeftSize)
              /\ BatchOf(ret.layout.size) = BatchOf(RightSize)

\* the shape guards of mm_args, read off the arguments
ShapeGuardsPass ==
    /\ ~BatchKnownUnequal
    /\ ~KnownUnequal(LeftContraction,
                     IF args.use_4x2_dim THEN times2(RightContraction)
                                         ELSE RightContraction)

\* the dtype and layout of a successful call
ResolvedDtype ==
    ret.status = "ok" =>
        /\ (args.layout = None /\ args.out_dtype = None)
               => ret.layout.dtype = args.mat1.dtype
        /\ (args.layout = None /\ args.out_dtype # None)
               => ret.layout.dtype = args.out_dtype
        /\ (args.layout # None /\ args.out_dtype = None)
               => ret.layout = args.layout

\* C9 as stated: with neither layout nor out_dtype the output dtype is that
\* of left; with out_dtype alone it is out_dtype; with layout alone the layout
\* is returned unchanged; with both the call always fails with
\* ConflictingSpecification and never returns a result.
C9_AsStated ==
    Called("mm_args") =>
        /\ ResolvedDtype
        /\ BothGiven => ret.status = "ConflictingSpecification"

\* C9, amended: as stated, except that with both layout and out_dtype the
\* call never returns a result and fails with ConflictingSpecification exactly
\* when the shape guards pass; when they do not, ShapeMismatch is raised
\* first.
C9_OutputDtype ==
    Called("mm_args") =>
        /\ ResolvedDtype
        /\ BothGiven =>
               /\ ret.status # "ok"
               /\ ret.status = "ConflictingSpecification" <=> ShapeGuardsPass
               /\ ret.status = "ShapeMismatch" <=> ~ShapeGuardsPass

C9_Witness ==
    /\ Called("mm_args")
    /\ BothGiven
    /\ ret.status = "ConflictingSpecification"

====
